---- MODULE Spec2Model ----
(***************************************************************************)
(* Document chunking pipeline of the AI Platform:                          *)
(*   processors/text_splitter.py  TextSplitter (normalize, xls_normalize,  *)
(*                                merge_item, split_text)                  *)
(*   processors/file_processor.py FileProcessor (process_files and its     *)
(*                                semaphore-guarded workers)               *)
(*   infrastructure/file_loader.py FileLoader.load                         *)
(* Strings are sequences of one-character strings.                         *)
(***************************************************************************)
EXTENDS Integers, Sequences, FiniteSets, TLC

\* ------------------------------------------------------------------ bounds
MaxTextLen == 4
MaxDocs == 2
MaxChunkSize == 4

\* ------------------------------------------------------------- characters
NL == "\n"
SP == " "
Whitespace == {NL, SP}
Chars == {"x", NL, SP}

\* ---------------------------------------------------------- string helpers
RECURSIVE SeqsUpTo(_, _)
SeqsUpTo(S, n) ==
    IF n = 0 THEN {<<>>}
    ELSE LET shorter == SeqsUpTo(S, n - 1)
         IN  shorter \cup {Append(s, c) : s \in {t \in shorter : Len(t) = n - 1}, c \in S}

Min(a, b) == IF a <= b THEN a ELSE b

\* s[i:j] of Python, 0-based half-open, for 0 <= i <= j <= len(s)
Slice(s, i, j) == SubSeq(s, i + 1, j)

\* str.startswith at offset i (0-based)
MatchAt(s, i, pat) ==
    /\ i + Len(pat) <= Len(s)
    /\ \A k \in 1..Len(pat) : s[i + k] = pat[k]

\* str.endswith
EndsWith(s, suffix) ==
    /\ Len(suffix) <= Len(s)
    /\ MatchAt(s, Len(s) - Len(suffix), suffix)

RECURSIVE LStrip(_)
LStrip(s) == IF s # <<>> /\ Head(s) \in Whitespace THEN LStrip(Tail(s)) ELSE s

RECURSIVE RStrip(_)
RStrip(s) ==
    IF s # <<>> /\ s[Len(s)] \in Whitespace THEN RStrip(SubSeq(s, 1, Len(s) - 1)) ELSE s

\* str.strip()
Strip(s) == RStrip(LStrip(s))

\* sep.join(parts)
RECURSIVE Join(_, _)
Join(parts, sep) ==
    IF parts = <<>> THEN <<>>
    ELSE IF Len(parts) = 1 THEN parts[1]
    ELSE parts[1] \o sep \o Join(Tail(parts), sep)

\* concatenation of a sequence of sequences
RECURSIVE Flatten(_)
Flatten(ss) == IF ss = <<>> THEN <<>> ELSE Head(ss) \o Flatten(Tail(ss))

\* str(i) for i >= 0
Digit(d) == <<"0", "1", "2", "3", "4", "5", "6", "7", "8", "9">>[d + 1]
RECURSIVE IntToStr(_)
IntToStr(i) == IF i < 10 THEN <<Digit(i)>> ELSE Append(IntToStr(i \div 10), Digit(i % 10))

\* dict.get(key, default)
Get(md, key, default) == IF key \in DOMAIN md THEN md[key] ELSE default

\* {**md, key: value}
With(md, key, value) == (key :> value) @@ md

\* ------------------------------------------- nltk.tokenize.blankline_tokenize
\* RegexpTokenizer(r'\s*\n\s*\n\s*', gaps=True, discard_empty=True), as called
\* by xls_normalize.  The pattern matches at offset i exactly when the
\* whitespace run that starts at i holds two newlines, and then (greedy final
\* \s*) the match runs to the end of that run.
RECURSIVE WsRunEnd(_, _)
WsRunEnd(s, i) == IF i < Len(s) /\ s[i + 1] \in Whitespace THEN WsRunEnd(s, i + 1) ELSE i

CountNL(s, i, j) == Cardinality({k \in (i + 1)..j : s[k] = NL})

\* variant: one newline is enough to end a block
BlankLineMatch_OneNewline(s, i) ==
    IF CountNL(s, i, WsRunEnd(s, i)) >= 1 THEN WsRunEnd(s, i) ELSE -1

\* end offset of the match of the pattern at offset i, -1 when it does not match
BlankLineMatch(s, i) == IF CountNL(s, i, WsRunEnd(s, i)) >= 2 THEN WsRunEnd(s, i) ELSE -1

\* regexp.split(text): the pieces between the leftmost non-overlapping matches
RECURSIVE RegexpSplit(_, _, _, _)
RegexpSplit(s, i, start, acc) ==
    IF i >= Len(s) THEN Append(acc, Slice(s, start, Len(s)))
    ELSE IF BlankLineMatch(s, i) >= 0
         THEN RegexpSplit(s, BlankLineMatch(s, i), BlankLineMatch(s, i),
                          Append(acc, Slice(s, start, i)))
         ELSE RegexpSplit(s, i + 1, start, acc)

blankline_tokenize(text) == SelectSeq(RegexpSplit(text, 0, 0, <<>>), LAMBDA tok : tok # <<>>)

\* ------------------------------------------------------------- TextSplitter
\* merge_item(a, b, page_num): a.copy() with the joined text and the new page
\* variant: the carry's text is dropped
merge_item_KeepCurrent(a, b, page_num) ==
    [a EXCEPT !.page_num = page_num]

merge_item(a, b, page_num) ==
    [a EXCEPT !.text = a.text \o <<NL, NL>> \o b.text, !.page_num = page_num]

\* variant: the average is rounded up
page_avg_Ceil(a, b) == (a + b + 1) \div 2

page_avg(a, b) == (a + b) \div 2

\* variant: every record is appended as it comes, nothing is carried
NormalizeLoop_NoCarry(input_list, chunk_len, i, tmp_item, output_list) ==
    output_list \o SubSeq(input_list, i, Len(input_list))

\* normalize(input_list, chunk_len); tmp_item = {} is the empty sequence here
RECURSIVE NormalizeLoop(_, _, _, _, _)
NormalizeLoop(input_list, chunk_len, i, tmp_item, output_list) ==
    IF i > Len(input_list)
    THEN IF tmp_item # <<>> THEN Append(output_list, tmp_item[1]) ELSE output_list
    ELSE LET value == input_list[i]
         IN  IF tmp_item # <<>>
             THEN LET new_item == merge_item(value, tmp_item[1],
                                             page_avg(value.page_num, tmp_item[1].page_num))
                  IN  IF Len(new_item.text) < chunk_len
                      THEN NormalizeLoop(input_list, chunk_len, i + 1, <<new_item>>, output_list)
                      ELSE NormalizeLoop(input_list, chunk_len, i + 1, <<>>,
                                         Append(output_list, new_item))
             ELSE IF Len(value.text) < chunk_len
                  THEN NormalizeLoop(input_list, chunk_len, i + 1, <<value>>, output_list)
                  ELSE NormalizeLoop(input_list, chunk_len, i + 1, <<>>,
                                     Append(output_list, value))

\* variant: the pending carry is not appended after the loop
normalize_NoTrailingCarry(input_list, chunk_len) ==
    SelectSeq(NormalizeLoop(input_list, chunk_len, 1, <<>>, <<>>),
              LAMBDA item : Len(item.text) >= chunk_len)

\* variant: a record of exactly chunk_len characters counts as small
normalize_Inclusive(input_list, chunk_len) ==
    NormalizeLoop(input_list, chunk_len + 1, 1, <<>>, <<>>)

normalize(input_list, chunk_len) == NormalizeLoop(input_list, chunk_len, 1, <<>>, <<>>)

\* the records xls_normalize makes of one item: one per token, in token order
XlsRows(item) ==
    LET rows == blankline_tokenize(item.text)
    IN  [k \in 1..Len(rows) |->
            [uuid |-> item.uuid, file_path |-> item.file_path,
             page_num |-> item.page_num, text |-> rows[k]]]

RECURSIVE xls_normalize(_)
xls_normalize(input_list) ==
    IF input_list = <<>> THEN <<>>
    ELSE XlsRows(Head(input_list)) \o xls_normalize(Tail(input_list))

\* --------------------------------- langchain_text_splitters.CharacterTextSplitter
\* The splitter split_text constructs (keep_separator=False, strip_whitespace=True,
\* length_function=len, literal separator).

\* re.split(re.escape(separator), text), or list(text) for the empty separator
RECURSIVE SplitOn(_, _, _, _, _)
SplitOn(s, sep, i, start, acc) ==
    IF i + Len(sep) > Len(s) THEN Append(acc, Slice(s, start, Len(s)))
    ELSE IF MatchAt(s, i, sep)
         THEN SplitOn(s, sep, i + Len(sep), i + Len(sep), Append(acc, Slice(s, start, i)))
         ELSE SplitOn(s, sep, i + 1, start, acc)

\* variant: the piece after the last separator is left out
split_text_with_regex_NoTail(text, sep) ==
    LET splits == IF sep # <<>> THEN SplitOn(text, sep, 0, 0, <<>>)
                  ELSE [k \in 1..Len(text) |-> <<text[k]>>]
    IN  SelectSeq(SubSeq(splits, 1, Len(splits) - 1), LAMBDA piece : piece # <<>>)

\* _split_text_with_regex: empty pieces are dropped
split_text_with_regex(text, sep) ==
    LET splits == IF sep # <<>> THEN SplitOn(text, sep, 0, 0, <<>>)
                  ELSE [k \in 1..Len(text) |-> <<text[k]>>]
    IN  SelectSeq(splits, LAMBDA piece : piece # <<>>)

\* _join_docs: the stripped join; <<>> stands for None (an empty result)
join_docs(docs, sep) == Strip(Join(docs, sep))

SepLenIf(cond, sep) == IF cond THEN Len(sep) ELSE 0

\* variant: nothing is popped, the pieces of the previous chunk are all kept
PopLoop_KeepAll(current_doc, total, len, sep, size, overlap) == <<current_doc, total>>

\* the "keep on popping" loop of _merge_splits; returns <<current_doc, total>>
RECURSIVE PopLoop(_, _, _, _, _, _)
PopLoop(current_doc, total, len, sep, size, overlap) ==
    IF \/ total > overlap
       \/ (total + len + SepLenIf(Len(current_doc) > 0, sep) > size /\ total > 0)
    THEN PopLoop(Tail(current_doc),
                 total - (Len(current_doc[1]) + SepLenIf(Len(current_doc) > 1, sep)),
                 len, sep, size, overlap)
    ELSE <<current_doc, total>>

\* _merge_splits(splits, separator)
RECURSIVE MergeLoop(_, _, _, _, _, _, _, _)
MergeLoop(splits, k, sep, size, overlap, docs, current_doc, total) ==
    IF k > Len(splits)
    THEN IF join_docs(current_doc, sep) # <<>>
         THEN Append(docs, join_docs(current_doc, sep)) ELSE docs
    ELSE LET d == splits[k]
             len == Len(d)
             over == total + len + SepLenIf(Len(current_doc) > 0, sep) > size
             flush == over /\ Len(current_doc) > 0
             docs1 == IF flush /\ join_docs(current_doc, sep) # <<>>
                      THEN Append(docs, join_docs(current_doc, sep)) ELSE docs
             popped == IF flush THEN PopLoop(current_doc, total, len, sep, size, overlap)
                       ELSE <<current_doc, total>>
             current1 == Append(popped[1], d)
         IN  MergeLoop(splits, k + 1, sep, size, overlap, docs1, current1,
                       popped[2] + len + SepLenIf(Len(current1) > 1, sep))

merge_splits(splits, sep, size, overlap) ==
    MergeLoop(splits, 1, sep, size, overlap, <<>>, <<>>, 0)

\* CharacterTextSplitter.split_text(text): the chunk texts of one text
SplitterSplitText(text, sep, size, overlap) ==
    merge_splits(split_text_with_regex(text, sep), sep, size, overlap)

\* TextSplitter.create_documents via split_documents: every chunk of a document
\* is a new Document with a deep copy of that document's metadata, a dict it
\* shares with no other Document (shares = 0)
DocChunks(doc, sep, size, overlap) ==
    LET chunks == SplitterSplitText(doc.page_content, sep, size, overlap)
    IN  [k \in 1..Len(chunks) |->
            [page_content |-> chunks[k], metadata |-> doc.metadata, shares |-> 0]]

RECURSIVE split_documents(_, _, _, _)
split_documents(docs, sep, size, overlap) ==
    IF docs = <<>> THEN <<>>
    ELSE DocChunks(Head(docs), sep, size, overlap)
         \o split_documents(Tail(docs), sep, size, overlap)

\* TextSplitter.__init__ of the library raises ValueError for a chunk_overlap
\* larger than chunk_size (chunk sizes are positive and overlaps non-negative in
\* every configuration considered here)
SplitterRejects(size, overlap) == overlap > size

\* ------------------------------------------------- TextSplitter.split_text
DotXlsx == <<".", "x", "l", "s", "x">>
DotXls == <<".", "x", "l", "s">>
Unknown == <<"u", "n", "k", "n", "o", "w", "n">>

\* the dispatch test of split_text: file_path.endswith('.xlsx') or .endswith('.xls')
IsExcelPath(file_path) == EndsWith(file_path, DotXlsx) \/ EndsWith(file_path, DotXls)

\* lines 138-148: lc_doc is the input Document itself, or a Document built on
\* the CoreDocument's metadata: either way its metadata is the very dict of
\* input document i (shares = i)
LcDocuments(docs) ==
    [i \in 1..Len(docs) |->
        [page_content |-> docs[i].page_content, metadata |-> docs[i].metadata, shares |-> i]]

\* variant: the keys are set on lc_doc.metadata itself and that dict is reused
DictDisplay_InPlace(shares) == shares

\* metadata={**lc_doc.metadata, ...} (lines 169-173, 187-190): the dict display
\* builds a new dict, which the new Document shares with no input document
DictDisplay(shares) == 0

\* the input documents once the metadata of the Documents in made is written:
\* a write reaches input document i through a Document that shares its dict
WriteThrough(inputs, made) ==
    [i \in 1..Len(inputs) |->
        LET ks == {k \in 1..Len(made) : made[k].shares = i}
        IN  IF ks = {} THEN inputs[i]
            ELSE [inputs[i] EXCEPT
                    !.metadata = made[CHOOSE k \in ks : \A j \in ks : j <= k].metadata]]

\* one pass of the preprocessing loop: the Documents made of one lc_doc
PreprocessDoc(lc_doc, size) ==
    LET file_path == Get(lc_doc.metadata, "source", <<>>)
        page == Get(lc_doc.metadata, "page", 0)
    IN  IF IsExcelPath(file_path)
        THEN LET text_chunks == xls_normalize(<<[uuid |-> "unknown", file_path |-> file_path,
                                                 page_num |-> page,
                                                 text |-> lc_doc.page_content]>>)
             IN  [k \in 1..Len(text_chunks) |->
                    [page_content |-> text_chunks[k].text,
                     metadata |-> With(With(lc_doc.metadata, "page", text_chunks[k].page_num),
                                       "source", text_chunks[k].file_path),
                     shares |-> DictDisplay(lc_doc.shares)]]
        ELSE LET normalized_data == normalize(<<[text |-> lc_doc.page_content,
                                                 page_num |-> page]>>, size)
             IN  [k \in 1..Len(normalized_data) |->
                    [page_content |-> normalized_data[k].text,
                     metadata |-> With(lc_doc.metadata, "page", normalized_data[k].page_num),
                     shares |-> DictDisplay(lc_doc.shares)]]

RECURSIVE PreprocessAll(_, _)
PreprocessAll(docs, size) ==
    IF docs = <<>> THEN <<>>
    ELSE PreprocessDoc(Head(docs), size) \o PreprocessAll(Tail(docs), size)

\* variant: the numbering restarts for every source
AddChunkNums_PerSource(docs) ==
    [k \in 1..Len(docs) |->
        [docs[k] EXCEPT !.metadata =
            With(docs[k].metadata, "chunk_num",
                 Cardinality({j \in 1..k : Get(docs[j].metadata, "source", Unknown)
                                            = Get(docs[k].metadata, "source", Unknown)}))]]

\* doc.metadata["chunk_num"] = i + 1 over enumerate(split_docs)
AddChunkNums(docs) ==
    [k \in 1..Len(docs) |->
        [docs[k] EXCEPT !.metadata = With(docs[k].metadata, "chunk_num", k)]]

\* variant: the id is built from the page instead of the position
DocId_ByPage(doc, i) ==
    Get(doc.metadata, "source", Unknown) \o <<"_">> \o IntToStr(Get(doc.metadata, "page", 0))

\* doc_id = f"{doc.metadata.get('source', 'unknown')}_{i}"
DocId(doc, i) == Get(doc.metadata, "source", Unknown) \o <<"_">> \o IntToStr(i)

\* _docs_to_core_docs: i is the 0-based position in the list
docs_to_core_docs(docs) ==
    [k \in 1..Len(docs) |->
        [id |-> DocId(docs[k], k - 1), content |-> docs[k].page_content,
         metadata |-> docs[k].metadata]]

\* ------------------------------------------------------ FileLoader.load
UpperLetters == <<"A", "B", "C", "D", "E", "F", "G", "H", "I", "J", "K", "L", "M",
                  "N", "O", "P", "Q", "R", "S", "T", "U", "V", "W", "X", "Y", "Z">>
LowerLetters == <<"a", "b", "c", "d", "e", "f", "g", "h", "i", "j", "k", "l", "m",
                  "n", "o", "p", "q", "r", "s", "t", "u", "v", "w", "x", "y", "z">>

\* str.lower()
LowerChar(c) ==
    IF \E k \in 1..26 : UpperLetters[k] = c
    THEN LowerLetters[CHOOSE k \in 1..26 : UpperLetters[k] = c] ELSE c
Lower(s) == [k \in 1..Len(s) |-> LowerChar(s[k])]

\* Path.suffix of a path without directories
Suffix(path) ==
    LET dots == {k \in 1..Len(path) : path[k] = "."}
        last == CHOOSE k \in dots : \A j \in dots : j <= k
    IN  IF dots = {} \/ last = 1 \/ last = Len(path) THEN <<>>
        ELSE SubSeq(path, last, Len(path))

\* str.replace('\n\n', '\n') of parse_pdf_to_text
RECURSIVE ReplaceNLNL(_)
ReplaceNLNL(s) ==
    IF Len(s) >= 2 /\ s[1] = NL /\ s[2] = NL THEN <<NL>> \o ReplaceNLNL(SubSeq(s, 3, Len(s)))
    ELSE IF s = <<>> THEN <<>>
    ELSE <<Head(s)>> \o ReplaceNLNL(Tail(s))

\* "| " + " | ".join(cells) + " |\n"
MdRow(cells) == <<"|", SP>> \o Join(cells, <<SP, "|", SP>>) \o <<SP, "|", NL>>

\* one sheet of extract_excel_to_md: heading, header row, rule row, data rows
SheetMd(heading, sheet) ==
    heading \o sheet.name \o <<NL, NL>>
    \o MdRow(sheet.cols)
    \o MdRow([k \in 1..Len(sheet.cols) |-> <<"-", "-", "-">>])
    \o Flatten([k \in 1..Len(sheet.rows) |-> MdRow(sheet.rows[k])])

\* extract_excel_to_md: every sheet's markdown followed by a newline
extract_excel_to_md(file_extension, sheets) ==
    LET heading == IF file_extension = DotXlsx
                   THEN <<"#", "#", SP, "S", "h", "e", "e", "t", ":", SP>>
                   ELSE <<"#", "#", SP>>
    IN  Flatten([k \in 1..Len(sheets) |-> SheetMd(heading, sheets[k]) \o <<NL>>])

DotPdf == <<".", "p", "d", "f">>
TextExtensions ==
    {<<".", "t", "x", "t">>, <<".", "p", "y">>, <<".", "j", "s">>, <<".", "t", "s">>,
     <<".", "j", "s", "x">>, <<".", "t", "s", "x">>, <<".", "c", "s", "v">>,
     <<".", "j", "s", "o", "n">>, <<".", "y", "a", "m", "l">>, <<".", "y", "m", "l">>,
     <<".", "x", "m", "l">>}

\* FileLoader(file_path).load() on a readable file with the given content (a text,
\* the page texts of a PDF, or the sheets of a workbook); ok = FALSE is the
\* ValueError for an unsupported extension
LoadFile(file_path, content) ==
    LET file_ext == Lower(Suffix(file_path))
        base == [source |-> file_path, file_uuid |-> file_path]
    IN  IF file_ext = DotPdf
        THEN [ok |-> TRUE,
              docs |-> [i \in 1..Len(content) |->
                          [page_content |-> ReplaceNLNL(content[i]),
                           metadata |-> With(base, "page", i - 1)]]]
        ELSE IF file_ext \in {DotXlsx, DotXls}
        THEN [ok |-> TRUE,
              docs |-> <<[page_content |-> extract_excel_to_md(file_ext, content),
                          metadata |-> base]>>]
        ELSE IF file_ext \in TextExtensions
        THEN [ok |-> TRUE, docs |-> <<[page_content |-> content, metadata |-> base]>>]
        ELSE [ok |-> FALSE, docs |-> <<>>]

\* ------------------------------------------------------------------- state
VARIABLES
    chunk_size, chunk_overlap, separator,   \* TextSplitter fields
    documents,          \* the argument of split_text
    pc,                 \* position of split_text ("idle" when it is not running)
    records_done,       \* input documents consumed by the preprocessing loop
    preprocessed_docs,  \* split_text local
    split_docs,         \* split_text local
    core_docs,          \* the list split_text returns
    calls,              \* number of the split_text call on this TextSplitter (1, 2)
    prev_docs,          \* what the previous call of split_text returned
    file_paths,         \* the argument of process_files
    concurrency, silent_errors,             \* FileProcessor fields
    semaphore,          \* value of FileProcessor.semaphore
    tasks,              \* one _process_single_file task per file: position and result
    fpc,                \* position of process_files
    raised_error,       \* the exception process_files raised (0: none)
    completed,          \* the tasks in the order they finished
    input_list,         \* the argument of xls_normalize / normalize
    chunk_len,          \* the argument of normalize
    output_list,        \* what xls_normalize / normalize returned
    call,               \* which of the two was called ("none" before the call)
    filename,           \* the argument of process_uploaded_file
    upc,                \* position of process_uploaded_file
    tmp_file_path,      \* process_uploaded_file local
    tmp_dir,            \* the files in the directory of temporary files
    upload_error        \* where the exception process_uploaded_file raised came from

splitVars == <<chunk_size, chunk_overlap, separator, documents, pc, records_done,
               preprocessed_docs, split_docs, core_docs, calls, prev_docs>>
fileVars == <<file_paths, concurrency, silent_errors, semaphore, tasks, fpc, raised_error,
              completed>>
fnVars == <<input_list, chunk_len, output_list, call>>
uploadVars == <<filename, upc, tmp_file_path, tmp_dir, upload_error>>
vars == <<splitVars, fileVars, fnVars, uploadVars>>

\* ------------------------------------------------------------------ inputs
SrcTxt == <<"a", ".", "t", "x", "t">>
SrcPdf == <<"a", "_", "1", ".", "p", "d", "f">>
SrcXlsx == <<"b", ".", "x", "l", "s", "x">>
SrcXls == <<"c", ".", "x", "l", "s">>

Texts == SeqsUpTo(Chars, MaxTextLen)

\* metadata of the documents of the one-document batches
Metas == {[source |-> SrcTxt], [source |-> SrcPdf, page |-> 1],
          [source |-> SrcXlsx], [page |-> 2]}

\* documents of the longer batches
Row3Text == <<"r", "1", NL, NL, "r", "2", NL, NL, "r", "3">>
CatalogueDocs ==
    {[page_content |-> <<"x">>, metadata |-> [source |-> SrcTxt, page |-> 1]],
     [page_content |-> <<"y">>, metadata |-> [source |-> SrcTxt, page |-> 2]],
     [page_content |-> <<"x", "x", NL, "y", "y", NL, "z">>, metadata |-> [source |-> SrcPdf, page |-> 0]],
     [page_content |-> Row3Text, metadata |-> [source |-> SrcXlsx]],
     [page_content |-> <<>>, metadata |-> [page |-> 3]]}

RECURSIVE SeqsOfLen(_, _)
SeqsOfLen(S, n) ==
    IF n = 0 THEN {<<>>}
    ELSE {Append(s, d) : s \in SeqsOfLen(S, n - 1), d \in S}

Batches ==
    {<<>>}
    \cup {<<[page_content |-> t, metadata |-> m]>> : t \in Texts, m \in Metas}
    \cup UNION {SeqsOfLen(CatalogueDocs, n) : n \in 2..MaxDocs}

Separators == {<<NL>>, <<>>}

\* ------------------------------------------------------ split_text, stepwise
\* lines 150-192: the preprocessing loop over all documents
Preprocess ==
    /\ pc = "start"
    /\ preprocessed_docs' = PreprocessAll(LcDocuments(documents), chunk_size)
    /\ documents' = WriteThrough(documents, preprocessed_docs')
    /\ records_done' = Len(documents)
    /\ pc' = "preprocessed"
    /\ UNCHANGED <<chunk_size, chunk_overlap, separator, split_docs, core_docs>>
    /\ UNCHANGED <<calls, prev_docs>>
    /\ UNCHANGED <<fileVars, fnVars, uploadVars>>

\* lines 195-199: the constructor of CharacterTextSplitter raises ValueError
SplitterRaises ==
    /\ pc = "preprocessed"
    /\ SplitterRejects(chunk_size, chunk_overlap)
    /\ pc' = "raised"
    /\ UNCHANGED <<chunk_size, chunk_overlap, separator, documents, records_done,
                   preprocessed_docs, split_docs, core_docs>>
    /\ UNCHANGED <<calls, prev_docs>>
    /\ UNCHANGED <<fileVars, fnVars, uploadVars>>

\* lines 195-200: the splitter is constructed and splits the preprocessed documents
SplitDocuments ==
    /\ pc = "preprocessed"
    /\ ~SplitterRejects(chunk_size, chunk_overlap)
    /\ split_docs' = split_documents(preprocessed_docs, separator, chunk_size, chunk_overlap)
    /\ pc' = "split"
    /\ UNCHANGED <<chunk_size, chunk_overlap, separator, documents, records_done,
                   preprocessed_docs, core_docs>>
    /\ UNCHANGED <<calls, prev_docs>>
    /\ UNCHANGED <<fileVars, fnVars, uploadVars>>

\* lines 203-204
NumberChunks ==
    /\ pc = "split"
    /\ split_docs' = AddChunkNums(split_docs)
    /\ documents' = WriteThrough(documents, split_docs')
    /\ pc' = "numbered"
    /\ UNCHANGED <<chunk_size, chunk_overlap, separator, records_done,
                   preprocessed_docs, core_docs>>
    /\ UNCHANGED <<calls, prev_docs>>
    /\ UNCHANGED <<fileVars, fnVars, uploadVars>>

\* lines 207-209
ReturnCoreDocs ==
    /\ pc = "numbered"
    /\ core_docs' = docs_to_core_docs(split_docs)
    /\ pc' = "returned"
    /\ UNCHANGED <<chunk_size, chunk_overlap, separator, documents, records_done,
                   preprocessed_docs, split_docs>>
    /\ UNCHANGED <<calls, prev_docs>>
    /\ UNCHANGED <<fileVars, fnVars, uploadVars>>

\* split_text is called again, with the same TextSplitter, on the CoreDocuments
\* the first call returned; lines 141-145 make Documents of them
Resplit ==
    /\ pc = "returned"
    /\ calls = 1
    /\ calls' = 2
    /\ prev_docs' = core_docs
    /\ documents' = [k \in 1..Len(core_docs) |->
                        [page_content |-> core_docs[k].content,
                         metadata |-> core_docs[k].metadata]]
    /\ pc' = "start"
    /\ records_done' = 0
    /\ preprocessed_docs' = <<>>
    /\ split_docs' = <<>>
    /\ core_docs' = <<>>
    /\ UNCHANGED <<chunk_size, chunk_overlap, separator>>
    /\ UNCHANGED <<fileVars, fnVars, uploadVars>>

SplitTextStep == Preprocess \/ SplitterRaises \/ SplitDocuments \/ NumberChunks \/ ReturnCoreDocs

FileIdle ==
    /\ file_paths = <<>>
    /\ concurrency = 1
    /\ silent_errors = FALSE
    /\ semaphore = 1
    /\ tasks = <<>>
    /\ fpc = "idle"
    /\ raised_error = 0
    /\ completed = <<>>

FnIdle ==
    /\ input_list = <<>>
    /\ chunk_len = 0
    /\ output_list = <<>>
    /\ call = "none"

\* tmp_file_path before line 114 has assigned it
NoPath == <<>>

UploadIdle ==
    /\ filename = <<>>
    /\ upc = "idle"
    /\ tmp_file_path = NoPath
    /\ tmp_dir = {}
    /\ upload_error = "none"

\* split_text called on an arbitrary batch by a TextSplitter of any configuration
InitSplit ==
    /\ chunk_size \in 1..MaxChunkSize
    /\ chunk_overlap \in 0..MaxChunkSize
    /\ separator \in Separators
    /\ documents \in Batches
    /\ pc = "start"
    /\ records_done = 0
    /\ preprocessed_docs = <<>>
    /\ split_docs = <<>>
    /\ core_docs = <<>>
    /\ calls = 1
    /\ prev_docs = <<>>
    /\ FileIdle
    /\ FnIdle
    /\ UploadIdle

NextSplit == SplitTextStep \/ Resplit
SpecSplit == InitSplit /\ [][NextSplit]_vars

\* ------------------------------------------- FileProcessor.process_files
MaxFiles == 3
MaxConcurrency == 2

PathTxt == SrcTxt
PathPdf == SrcPdf
PathXlsx == SrcXlsx
PathXlsxUpper == <<"B", ".", "X", "L", "S", "X">>
PathBin == <<"d", ".", "b", "i", "n">>
Paths == {PathTxt, PathPdf, PathXlsx, PathXlsxUpper, PathBin}

TheSheet == [name |-> <<"S">>, cols |-> <<<<"h">>>>, rows |-> <<<<<<"1">>>>, <<<<"2">>>>>>]

\* what is stored in each file
Disk(path) ==
    IF Lower(Suffix(path)) = DotPdf THEN <<<<"x", NL, NL, "y">>, <<"z", "z", "z", "z">>>>
    ELSE IF Lower(Suffix(path)) \in {DotXlsx, DotXls} THEN <<TheSheet>>
    ELSE <<"x", "x", NL, "y", NL, "z">>

\* the two configurations of the FileProcessor: an accepted one and one whose
\* overlap exceeds the chunk size
ProcConfigs == {[chunk_size |-> 3, chunk_overlap |-> 1], [chunk_size |-> 1, chunk_overlap |-> 2]}

NoResult == [kind |-> "none", docs |-> <<>>, err |-> 0]
DocsResult(docs) == [kind |-> "docs", docs |-> docs, err |-> 0]
ExcResult(i) == [kind |-> "exc", docs |-> <<>>, err |-> i]

TaskIds == 1..Len(file_paths)
Inside == {i \in TaskIds : tasks[i].pc = "inside"}

\* variant: acquire also passes at value 0
CanAcquire_AtZero(value) == value >= 0

\* Semaphore.acquire does not block while the value is positive
CanAcquire(value) == value > 0

\* line 77: async with self.semaphore (entry).  Other workers may run between
\* a worker's entry and its exit: this covers every scheduling of the tasks,
\* the one of an event loop that runs a blocking load without interruption
\* included.
Acquire(i) ==
    /\ fpc = "gather"
    /\ tasks[i].pc = "pending"
    /\ CanAcquire(semaphore)
    /\ semaphore' = semaphore - 1
    /\ tasks' = [tasks EXCEPT ![i].pc = "inside"]
    /\ UNCHANGED <<file_paths, concurrency, silent_errors, fpc, raised_error, completed>>
    /\ UNCHANGED <<splitVars, fnVars, uploadVars>>

\* variant: the semaphore is released only when the block was left normally
SemaphoreExit_NotOnError(value, raised) == IF raised THEN value ELSE value + 1

\* line 77: async with self.semaphore (exit).  __aexit__ releases the
\* semaphore whether the block returned or raised
SemaphoreExit(value, raised) == value + 1

\* lines 79-81: the load succeeds; leaving the with block releases the semaphore
LoadReturns(i) ==
    /\ tasks[i].pc = "inside"
    /\ LoadFile(file_paths[i], Disk(file_paths[i])).ok
    /\ tasks' = [tasks EXCEPT ![i] = [pc |-> "done", load_failed |-> FALSE,
                    result |-> DocsResult(LoadFile(file_paths[i], Disk(file_paths[i])).docs)]]
    /\ semaphore' = SemaphoreExit(semaphore, FALSE)
    /\ completed' = Append(completed, i)
    /\ UNCHANGED <<file_paths, concurrency, silent_errors, fpc, raised_error>>
    /\ UNCHANGED <<splitVars, fnVars, uploadVars>>

\* lines 82-85: what the except clause makes of an exception of file i
ExceptResult(silent, i) == IF ~silent THEN ExcResult(i) ELSE DocsResult(<<>>)

\* lines 79-85: the load raises (unsupported extension, or the file cannot be
\* read or parsed); leaving the with block releases the semaphore
LoadRaises(i) ==
    /\ tasks[i].pc = "inside"
    /\ tasks' = [tasks EXCEPT ![i] = [pc |-> "done", load_failed |-> TRUE,
                                      result |-> ExceptResult(silent_errors, i)]]
    /\ semaphore' = SemaphoreExit(semaphore, TRUE)
    /\ completed' = Append(completed, i)
    /\ UNCHANGED <<file_paths, concurrency, silent_errors, fpc, raised_error>>
    /\ UNCHANGED <<splitVars, fnVars, uploadVars>>

\* line 51: gather returns the results in the order of file_paths once every
\* task is done
GatherDone == \A i \in TaskIds : tasks[i].pc = "done"
\* variant: the results are collected in the order the tasks finished
Results_AsCompleted == [k \in 1..Len(completed) |-> tasks[completed[k]].result]

Results == [i \in TaskIds |-> tasks[i].result]

\* variant: exception results are always skipped
FlattenRaises_Never(results, silent) == FALSE

\* lines 55-58: the flattening loop raises at an exception result
FlattenRaises(results, silent) ==
    ~silent /\ \E i \in 1..Len(results) : results[i].kind = "exc"

\* variant: all_docs = result instead of all_docs.extend(result)
FlattenDocs_LastOnly(results) ==
    IF results = <<>> \/ results[Len(results)].kind = "exc" THEN <<>>
    ELSE results[Len(results)].docs

\* lines 54-60: all_docs.extend(result) over the non-exception results
RECURSIVE FlattenDocs(_)
FlattenDocs(results) ==
    IF results = <<>> THEN <<>>
    ELSE (IF Head(results).kind = "exc" THEN <<>> ELSE Head(results).docs)
         \o FlattenDocs(Tail(results))

\* lines 55-58: raise result, for the first exception in file order
RaiseResult ==
    /\ fpc = "gather"
    /\ GatherDone
    /\ FlattenRaises(Results, silent_errors)
    /\ raised_error' = (CHOOSE i \in TaskIds :
                            /\ Results[i].kind = "exc"
                            /\ \A j \in 1..(i - 1) : Results[j].kind # "exc")
    /\ fpc' = "raised"
    /\ UNCHANGED <<file_paths, concurrency, silent_errors, semaphore, tasks, completed>>
    /\ UNCHANGED <<splitVars, fnVars, uploadVars>>

\* lines 54-63: the loop completes and split_text is called on all_docs
CallSplitText ==
    /\ fpc = "gather"
    /\ GatherDone
    /\ ~FlattenRaises(Results, silent_errors)
    /\ documents' = FlattenDocs(Results)
    /\ pc' = "start"
    /\ fpc' = "splitting"
    /\ UNCHANGED <<chunk_size, chunk_overlap, separator, records_done, preprocessed_docs,
                   split_docs, core_docs, calls, prev_docs>>
    /\ UNCHANGED <<file_paths, concurrency, silent_errors, semaphore, tasks, raised_error,
                   completed>>
    /\ UNCHANGED <<fnVars, uploadVars>>

\* lines 63-65: split_text returned
ReturnAllDocs ==
    /\ fpc = "splitting"
    /\ pc = "returned"
    /\ fpc' = "returned"
    /\ UNCHANGED <<file_paths, concurrency, silent_errors, semaphore, tasks, raised_error,
                   completed>>
    /\ UNCHANGED <<splitVars, fnVars, uploadVars>>

\* line 63: the ValueError of split_text propagates (error -1)
PropagateSplitError ==
    /\ fpc = "splitting"
    /\ pc = "raised"
    /\ fpc' = "raised"
    /\ raised_error' = -1
    /\ UNCHANGED <<file_paths, concurrency, silent_errors, semaphore, tasks, completed>>
    /\ UNCHANGED <<splitVars, fnVars, uploadVars>>

\* the paths of the longer batches: a two-page pdf and an unsupported file
LongPaths == {PathPdf, PathBin}

\* every batch of up to two files, and the batches of three and more files
\* over LongPaths
PathSeqs ==
    UNION {SeqsOfLen(Paths, n) : n \in 0..2}
    \cup UNION {SeqsOfLen(LongPaths, n) : n \in 3..MaxFiles}

Init ==
    /\ file_paths \in PathSeqs
    /\ concurrency \in 1..MaxConcurrency
    /\ silent_errors \in BOOLEAN
    /\ \E cfg \in ProcConfigs : chunk_size = cfg.chunk_size /\ chunk_overlap = cfg.chunk_overlap
    /\ separator = <<NL>>
    /\ semaphore = concurrency
    /\ tasks = [i \in 1..Len(file_paths) |->
                   [pc |-> "pending", load_failed |-> FALSE, result |-> NoResult]]
    /\ fpc = "gather"
    /\ raised_error = 0
    /\ completed = <<>>
    /\ documents = <<>>
    /\ pc = "idle"
    /\ records_done = 0
    /\ preprocessed_docs = <<>>
    /\ split_docs = <<>>
    /\ core_docs = <<>>
    /\ calls = 1
    /\ prev_docs = <<>>
    /\ FnIdle
    /\ UploadIdle

Next ==
    \/ \E i \in TaskIds : Acquire(i)
    \/ \E i \in TaskIds : LoadReturns(i)
    \/ \E i \in TaskIds : LoadRaises(i)
    \/ RaiseResult
    \/ CallSplitText
    \/ Preprocess
    \/ SplitterRaises
    \/ SplitDocuments
    \/ NumberChunks
    \/ ReturnCoreDocs
    \/ ReturnAllDocs
    \/ PropagateSplitError

Spec == Init /\ [][Next]_vars

\* a worker that waits at a semaphore with a free slot enters it
Enters ==
    /\ fpc = "gather"
    /\ \E i \in TaskIds : tasks[i].pc = "pending"
    /\ CanAcquire(semaphore)
    /\ semaphore' = semaphore - 1

\* a load that has been started comes to an end: it returns or it raises
Leaves == \E i \in TaskIds : tasks[i].pc = "inside" /\ completed' = Append(completed, i)

\* the body of process_files goes on once gather or split_text has finished
GatherStep == RaiseResult \/ CallSplitText \/ ReturnAllDocs \/ PropagateSplitError

\* split_text is sequential code: while it is between two of its statements,
\* it takes the next one
PcAdvances ==
    /\ fpc = "splitting"
    /\ pc \notin {"returned", "raised"}
    /\ pc' \in {"preprocessed", "split", "numbered", "returned", "raised"}
    /\ pc' # pc

Fairness ==
    /\ WF_semaphore(Enters)
    /\ WF_completed(Leaves)
    /\ WF_vars(GatherStep)
    /\ WF_pc(PcAdvances)

SpecFair == Spec /\ Fairness

\* ------------------------------------------------- process_uploaded_file
\* get_default_supported_extensions (ALLOWED_EXTENSIONS is not set)
get_default_supported_extensions ==
    {<<".", "t", "x", "t">>, DotPdf, DotXlsx, DotXls, <<".", "c", "s", "v">>,
     <<".", "h", "t", "m", "l">>, <<".", "h", "t", "m">>, <<".", "r", "t", "f">>,
     <<".", "o", "d", "t">>, <<".", "x", "m", "l">>, <<".", "j", "s", "o", "n">>,
     <<".", "j", "p", "g">>, <<".", "j", "p", "e", "g">>, <<".", "p", "n", "g">>,
     <<".", "b", "m", "p">>, <<".", "g", "i", "f">>, <<".", "t", "i", "f", "f">>,
     <<".", "w", "e", "b", "p">>}

is_extension_allowed(file_ext) == Lower(file_ext) \in get_default_supported_extensions

\* filename.split('.')[-1]
LastDotPart(name) ==
    LET dots == {k \in 1..Len(name) : name[k] = "."}
    IN  IF dots = {} THEN name
        ELSE SubSeq(name, (CHOOSE k \in dots : \A j \in dots : j <= k) + 1, Len(name))

validate_file_type(name) ==
    IF name = <<>> THEN FALSE
    ELSE is_extension_allowed(IF \E k \in 1..Len(name) : name[k] = "."
                              THEN <<".">> \o Lower(LastDotPart(name))
                              ELSE <<>>)

\* the names of the uploaded files: supported and loadable in either letter
\* case, supported by the validator only, a bare extension, unsupported,
\* without extension, and empty
Filenames ==
    {SrcTxt, SrcPdf, SrcXls, PathXlsxUpper, <<"e", ".", "h", "t", "m", "l">>, DotPdf, PathBin,
     <<"n", "o">>, <<>>}

\* lines 111-114: the name NamedTemporaryFile gives the file, with the suffix it
\* was asked for
TmpName(name) == <<"t", "m", "p", "0">> \o Suffix(name)

\* variant: the file is removed only when process_files returned
FinallyUnlink_OnlyOnReturn(dir, path, raised) == IF raised THEN dir ELSE dir \ {path}

\* lines 127-130: the finally clause runs os.unlink on both ways out of the try
FinallyUnlink(dir, path, raised) == dir \ {path}

InitUpload ==
    /\ filename \in Filenames
    /\ upc = "start"
    /\ tmp_file_path = NoPath
    /\ tmp_dir = {}
    /\ upload_error = "none"
    /\ concurrency \in 1..MaxConcurrency
    /\ silent_errors \in BOOLEAN
    /\ \E cfg \in ProcConfigs : chunk_size = cfg.chunk_size /\ chunk_overlap = cfg.chunk_overlap
    /\ separator = <<NL>>
    /\ file_paths = <<>>
    /\ semaphore = concurrency
    /\ tasks = <<>>
    /\ fpc = "idle"
    /\ raised_error = 0
    /\ completed = <<>>
    /\ documents = <<>>
    /\ pc = "idle"
    /\ records_done = 0
    /\ preprocessed_docs = <<>>
    /\ split_docs = <<>>
    /\ core_docs = <<>>
    /\ calls = 1
    /\ prev_docs = <<>>
    /\ FnIdle

\* lines 105-107: the file type is not supported and errors are not silent
ValidateRaises ==
    /\ upc = "start"
    /\ ~validate_file_type(filename)
    /\ ~silent_errors
    /\ upc' = "raised"
    /\ upload_error' = "unsupported"
    /\ UNCHANGED <<filename, tmp_file_path, tmp_dir>>
    /\ UNCHANGED <<splitVars, fileVars, fnVars>>

\* lines 105-108: the file type is not supported and errors are silent
ValidateReturnsEmpty ==
    /\ upc = "start"
    /\ ~validate_file_type(filename)
    /\ silent_errors
    /\ upc' = "returned"
    /\ UNCHANGED <<filename, tmp_file_path, tmp_dir, upload_error>>
    /\ UNCHANGED <<splitVars, fileVars, fnVars>>

\* lines 111-114: the temporary file is created, written and closed
CreateTempFile ==
    /\ upc = "start"
    /\ validate_file_type(filename)
    /\ tmp_dir' = tmp_dir \cup {TmpName(filename)}
    /\ tmp_file_path' = TmpName(filename)
    /\ upc' = "created"
    /\ UNCHANGED <<filename, upload_error>>
    /\ UNCHANGED <<splitVars, fileVars, fnVars>>

\* lines 112-113: the temporary file is created and writing the data to it
\* raises (the device is full); line 114 and the try statement are not reached
WriteRaises ==
    /\ upc = "start"
    /\ validate_file_type(filename)
    /\ tmp_dir' = tmp_dir \cup {TmpName(filename)}
    /\ upc' = "raised"
    /\ upload_error' = "write"
    /\ UNCHANGED <<filename, tmp_file_path>>
    /\ UNCHANGED <<splitVars, fileVars, fnVars>>

\* lines 116-125: a FileProcessor is constructed and process_files is called on
\* the temporary file
ProcessTempFile ==
    /\ upc = "created"
    /\ file_paths' = <<tmp_file_path>>
    /\ semaphore' = concurrency
    /\ tasks' = <<[pc |-> "pending", load_failed |-> FALSE, result |-> NoResult]>>
    /\ fpc' = "gather"
    /\ upc' = "processing"
    /\ UNCHANGED <<concurrency, silent_errors, raised_error, completed>>
    /\ UNCHANGED <<filename, tmp_file_path, tmp_dir, upload_error>>
    /\ UNCHANGED <<splitVars, fnVars>>

\* lines 125-130: process_files returned; the finally clause runs, then the
\* documents are returned
ReturnDocs ==
    /\ upc = "processing"
    /\ fpc = "returned"
    /\ tmp_dir' = FinallyUnlink(tmp_dir, tmp_file_path, FALSE)
    /\ upc' = "returned"
    /\ UNCHANGED <<filename, tmp_file_path, upload_error>>
    /\ UNCHANGED <<splitVars, fileVars, fnVars>>

\* lines 125-130: process_files raised; the finally clause runs, then the
\* exception of the load or of split_text propagates
PropagateError ==
    /\ upc = "processing"
    /\ fpc = "raised"
    /\ tmp_dir' = FinallyUnlink(tmp_dir, tmp_file_path, TRUE)
    /\ upc' = "raised"
    /\ upload_error' = (IF raised_error = -1 THEN "chunking" ELSE "loading")
    /\ UNCHANGED <<filename, tmp_file_path>>
    /\ UNCHANGED <<splitVars, fileVars, fnVars>>

NextUpload ==
    \/ ValidateRaises
    \/ ValidateReturnsEmpty
    \/ CreateTempFile
    \/ WriteRaises
    \/ ProcessTempFile
    \/ \E i \in TaskIds : Acquire(i)
    \/ \E i \in TaskIds : LoadReturns(i)
    \/ \E i \in TaskIds : LoadRaises(i)
    \/ RaiseResult
    \/ CallSplitText
    \/ Preprocess
    \/ SplitterRaises
    \/ SplitDocuments
    \/ NumberChunks
    \/ ReturnCoreDocs
    \/ ReturnAllDocs
    \/ PropagateSplitError
    \/ ReturnDocs
    \/ PropagateError

SpecUpload == InitUpload /\ [][NextUpload]_vars

\* ----------------------------------------- xls_normalize called on its own
MaxXlsTextLen == 5
MaxRecords == 2

XlsTexts == SeqsUpTo(Chars, MaxXlsTextLen)

\* records of the one-record lists
XlsRecords ==
    {[uuid |-> "unknown", file_path |-> SrcXlsx, page_num |-> 0, text |-> t] : t \in XlsTexts}

\* records of the longer lists
XlsCatalogue ==
    {[uuid |-> "unknown", file_path |-> SrcXlsx, page_num |-> 0, text |-> Row3Text],
     [uuid |-> "unknown", file_path |-> SrcXls, page_num |-> 1,
      text |-> <<"a", SP, NL, SP, NL, "b", NL, "c">>],
     [uuid |-> "unknown", file_path |-> SrcXls, page_num |-> 2, text |-> <<NL, NL>>],
     [uuid |-> "unknown", file_path |-> SrcXlsx, page_num |-> 3, text |-> <<"x">>]}

XlsInputs ==
    {<<>>} \cup {<<r>> : r \in XlsRecords \cup XlsCatalogue}
    \cup UNION {SeqsOfLen(XlsCatalogue, n) : n \in 2..MaxRecords}

\* lines 76-86
CallXlsNormalize ==
    /\ call = "none"
    /\ output_list' = xls_normalize(input_list)
    /\ call' = "xls_normalize"
    /\ UNCHANGED <<input_list, chunk_len>>
    /\ UNCHANGED <<splitVars, fileVars, uploadVars>>

InitXls ==
    /\ input_list \in XlsInputs
    /\ chunk_len = 0
    /\ output_list = <<>>
    /\ call = "none"
    /\ chunk_size = 1
    /\ chunk_overlap = 0
    /\ separator = <<NL>>
    /\ documents = <<>>
    /\ pc = "idle"
    /\ records_done = 0
    /\ preprocessed_docs = <<>>
    /\ split_docs = <<>>
    /\ core_docs = <<>>
    /\ calls = 1
    /\ prev_docs = <<>>
    /\ FileIdle
    /\ UploadIdle

NextXls == CallXlsNormalize
SpecXls == InitXls /\ [][NextXls]_vars

\* --------------------------------------------- normalize called on its own
MaxNormTextLen == 2
MaxNormRecords == 3
MaxChunkLen == 4

\* one text of every length: "", "a", "bb", ...
NormLetters == <<"a", "b", "c", "d", "e">>
NormTexts == {[k \in 1..n |-> NormLetters[n]] : n \in 0..MaxNormTextLen}
NormPages == {0, 2}

NormRecords ==
    {[uuid |-> "unknown", file_path |-> SrcTxt, page_num |-> p, text |-> t] :
        p \in NormPages, t \in NormTexts}

NormInputs == UNION {SeqsOfLen(NormRecords, n) : n \in 0..MaxNormRecords}

\* lines 47-64
CallNormalize ==
    /\ call = "none"
    /\ output_list' = normalize(input_list, chunk_len)
    /\ call' = "normalize"
    /\ UNCHANGED <<input_list, chunk_len>>
    /\ UNCHANGED <<splitVars, fileVars, uploadVars>>

InitNorm ==
    /\ input_list \in NormInputs
    /\ chunk_len \in 0..MaxChunkLen
    /\ output_list = <<>>
    /\ call = "none"
    /\ chunk_size = 1
    /\ chunk_overlap = 0
    /\ separator = <<NL>>
    /\ documents = <<>>
    /\ pc = "idle"
    /\ records_done = 0
    /\ preprocessed_docs = <<>>
    /\ split_docs = <<>>
    /\ core_docs = <<>>
    /\ calls = 1
    /\ prev_docs = <<>>
    /\ FileIdle
    /\ UploadIdle

NextNorm == CallNormalize
SpecNorm == InitNorm /\ [][NextNorm]_vars

\* ---------------------------------------------------------------- claims
ValidConfig == 0 <= chunk_overlap /\ chunk_overlap < chunk_size
InvalidConfig == chunk_overlap >= chunk_size \/ chunk_size <= 0

HasExcelSource(doc) == IsExcelPath(Get(doc.metadata, "source", <<>>))

\* C1: the chunks split_text returns carry chunk_num 1, 2, ..., n in output
\* order, whatever sources contributed (no restart when the source changes).
C1_ChunkNumSequential ==
    pc = "returned" =>
        \A k \in 1..Len(core_docs) :
            /\ "chunk_num" \in DOMAIN core_docs[k].metadata
            /\ core_docs[k].metadata["chunk_num"] = k

\* C1 witness: a returned list of three or more chunks from two different sources
C1_Witness ==
    /\ pc = "returned"
    /\ Len(core_docs) >= 3
    /\ \E j, k \in 1..Len(core_docs) :
          /\ j < k
          /\ Get(core_docs[j].metadata, "source", Unknown)
               # Get(core_docs[k].metadata, "source", Unknown)
          /\ core_docs[k].metadata["chunk_num"] = k

\* C2 (as claimed): with 0 <= chunk_overlap < chunk_size every returned chunk
\* has content length <= chunk_size.
C2_Claim ==
    (pc = "returned" /\ ValidConfig) =>
        \A k \in 1..Len(core_docs) : Len(core_docs[k].content) <= chunk_size

\* C3 (as claimed): when one record is divided into several chunks, every chunk
\* after the first begins with the last chunk_overlap characters of the chunk
\* before it; the scaled scenario: a record "xxx" with chunk_size 2,
\* chunk_overlap 1 and the newline separator gives the chunks "xx" and "xx".
C3_Claim ==
    (pc = "returned" /\ ValidConfig /\ Len(documents) = 1 /\ ~HasExcelSource(documents[1])) =>
        /\ \A k \in 2..Len(core_docs) :
              LET prev == core_docs[k - 1].content
                  o == Min(chunk_overlap, Len(prev))
              IN  /\ Len(core_docs[k].content) >= o
                  /\ SubSeq(core_docs[k].content, 1, o) = SubSeq(prev, Len(prev) - o + 1, Len(prev))
        /\ (/\ documents[1].page_content = <<"x", "x", "x">>
            /\ chunk_size = 2 /\ chunk_overlap = 1 /\ separator = <<NL>>)
           => /\ Len(core_docs) = 2
              /\ core_docs[1].content = <<"x", "x">>
              /\ core_docs[2].content = <<"x", "x">>
              /\ core_docs[1].metadata["chunk_num"] = 1
              /\ core_docs[2].metadata["chunk_num"] = 2

\* C4 (as claimed): two consecutive non-tabular records, each shorter than
\* chunk_size and fitting together in chunk_size, come out as exactly one chunk
\* that holds both texts joined by a blank line, with the averaged page.
C4_Claim ==
    (/\ pc = "returned" /\ ValidConfig /\ Len(documents) = 2
     /\ \A i \in 1..2 : /\ ~HasExcelSource(documents[i])
                        /\ documents[i].page_content # <<>>
                        /\ Len(documents[i].page_content) < chunk_size
     /\ Len(documents[1].page_content) + 2 + Len(documents[2].page_content) <= chunk_size)
    => /\ Len(core_docs) = 1
       /\ core_docs[1].content \in
             {documents[1].page_content \o <<NL, NL>> \o documents[2].page_content,
              documents[2].page_content \o <<NL, NL>> \o documents[1].page_content}
       /\ core_docs[1].metadata["page"] =
             page_avg(Get(documents[1].metadata, "page", 0), Get(documents[2].metadata, "page", 0))

\* Blank-line-delimited blocks, stated on positions: a position belongs to a
\* blank-line gap when the maximal run of whitespace around it holds two
\* newlines; the blocks of a text are its maximal gap-free intervals.
InGap(text, k) ==
    /\ text[k] \in Whitespace
    /\ \E a \in 1..k, b \in k..Len(text) :
          /\ \A j \in a..b : text[j] \in Whitespace
          /\ Cardinality({j \in a..b : text[j] = NL}) >= 2

BlockIntervals(text) ==
    {iv \in (1..Len(text)) \X (1..Len(text)) :
        /\ iv[1] <= iv[2]
        /\ \A j \in iv[1]..iv[2] : ~InGap(text, j)
        /\ iv[1] = 1 \/ InGap(text, iv[1] - 1)
        /\ iv[2] = Len(text) \/ InGap(text, iv[2] + 1)}

\* the r-th block of a text, in the order the blocks occur
NthBlock(text, r) ==
    LET iv == CHOOSE v \in BlockIntervals(text) :
                  Cardinality({w \in BlockIntervals(text) : w[1] < v[1]}) = r - 1
    IN  SubSeq(text, iv[1], iv[2])

BlockCount(text) == Cardinality(BlockIntervals(text))

\* number of output records that precede those of input record i
RECURSIVE BlocksBefore(_, _)
BlocksBefore(list, i) ==
    IF i <= 1 THEN 0 ELSE BlocksBefore(list, i - 1) + BlockCount(list[i - 1].text)

\* C5: xls_normalize returns exactly one record per blank-line-delimited block:
\* the blocks of a record in text order, those of an earlier record first, each
\* with its parent's file_path and page_num, never merged with a sibling.
C5_OneRecordPerBlock ==
    call = "xls_normalize" =>
        /\ Len(output_list) = BlocksBefore(input_list, Len(input_list) + 1)
        /\ \A i \in 1..Len(input_list) :
              \A r \in 1..BlockCount(input_list[i].text) :
                  LET out == output_list[BlocksBefore(input_list, i) + r]
                  IN  /\ out.text = NthBlock(input_list[i].text, r)
                      /\ out.file_path = input_list[i].file_path
                      /\ out.page_num = input_list[i].page_num

\* C5 witness: the three-row scenario, as the second record of a list
C5_Witness ==
    /\ call = "xls_normalize"
    /\ Len(input_list) = 2
    /\ input_list[2].text = Row3Text
    /\ Len(output_list) >= 4
    /\ output_list[Len(output_list) - 2].text = <<"r", "1">>
    /\ output_list[Len(output_list) - 1].text = <<"r", "2">>
    /\ output_list[Len(output_list)].text = <<"r", "3">>
    /\ output_list[1].page_num # output_list[Len(output_list)].page_num

\* C6 (as claimed): with an invalid configuration (chunk_overlap >= chunk_size or
\* chunk_size <= 0) split_text raises before any record is processed and
\* returns no chunk.
C6_Claim ==
    (InvalidConfig /\ documents # <<>>) =>
                     /\ pc \notin {"split", "numbered", "returned"}
                     /\ pc = "raised" => records_done = 0

FailedTasks == {i \in TaskIds : tasks[i].load_failed}

\* C7: with silent_errors = False, once the load of some file has failed,
\* process_files raises the error of the first failed file and returns nothing:
\* the documents of the files that loaded are never handed to split_text.
C7_AbortsOnLoadFailure ==
    (~silent_errors /\ fpc \notin {"idle", "gather"} /\ FailedTasks # {}) =>
        /\ fpc = "raised"
        /\ raised_error \in FailedTasks
        /\ \A i \in FailedTasks : raised_error <= i
        /\ pc = "idle"
        /\ documents = <<>>
        /\ core_docs = <<>>

\* C7 witness: the batch is aborted although another file was loaded
C7_Witness ==
    /\ ~silent_errors
    /\ fpc = "raised"
    /\ FailedTasks # {}
    /\ \E i \in TaskIds : tasks[i].result.kind = "docs" /\ tasks[i].result.docs # <<>>

\* chunk contents split_text makes of a list of documents
SplitTextContents(docs) ==
    LET chunks == split_documents(PreprocessAll(LcDocuments(docs), chunk_size), separator,
                                  chunk_size, chunk_overlap)
    IN  [k \in 1..Len(chunks) |-> chunks[k].page_content]

\* chunk contents of the files that loaded, file by file, in file order
ContentsOfLoadedFiles ==
    Flatten([i \in TaskIds |->
                IF tasks[i].load_failed THEN <<>>
                ELSE SplitTextContents(LoadFile(file_paths[i], Disk(file_paths[i])).docs)])

C9_BoundedConcurrency == Cardinality(Inside) <= concurrency

\* C9 witness: the section is full and another worker is waiting to enter
C9_Witness ==
    /\ fpc = "gather"
    /\ Cardinality(Inside) = concurrency
    /\ concurrency >= 2
    /\ \E i \in TaskIds : tasks[i].pc = "pending"

\* C10: the ids of a returned list are pairwise distinct, and the id at 1-based
\* position k is the chunk's source name, an underscore and the ordinal k-1.
C10_IdsDistinct ==
    pc = "returned" =>
        /\ \A j, k \in 1..Len(core_docs) : j # k => core_docs[j].id # core_docs[k].id
        /\ \A k \in 1..Len(core_docs) :
              LET id == core_docs[k].id
                  ord == IntToStr(k - 1)
                  src == Get(core_docs[k].metadata, "source", Unknown)
              IN  /\ Len(id) = Len(src) + 1 + Len(ord)
                  /\ SubSeq(id, 1, Len(src)) = src
                  /\ id[Len(src) + 1] = "_"
                  /\ SubSeq(id, Len(src) + 2, Len(id)) = ord

\* C10 witness: two chunks of the same source in one returned list
C10_Witness ==
    /\ pc = "returned"
    /\ \E j, k \in 1..Len(core_docs) :
          /\ j < k
          /\ "source" \in DOMAIN core_docs[j].metadata
          /\ "source" \in DOMAIN core_docs[k].metadata
          /\ core_docs[j].metadata["source"] = core_docs[k].metadata["source"]
          /\ core_docs[j].id # core_docs[k].id


\* ------------------------------------------------------ claims on normalize
\* the ways of cutting n input records into m runs of consecutive records:
\* e[k] is the index of the last input record of run k
Segmentations(n, m) ==
    {e \in [1..m -> 1..n] :
        /\ m = 0 => n = 0
        /\ m > 0 => e[m] = n
        /\ \A k \in 1..(m - 1) : e[k] < e[k + 1]}

RunStart(e, k) == IF k = 1 THEN 1 ELSE e[k - 1] + 1
RunLen(e, k) == e[k] - RunStart(e, k) + 1
RunTexts(e, k) == [j \in 1..RunLen(e, k) |-> input_list[RunStart(e, k) + j - 1].text]
RunPages(e, k) == [j \in 1..RunLen(e, k) |-> input_list[RunStart(e, k) + j - 1].page_num]

BlankLine == <<NL, NL>>

\* text is the given texts joined by blank lines, in some order
JoinedInSomeOrder(texts, text) ==
    \E p \in Permutations(1..Len(texts)) :
        text = Join([j \in 1..Len(texts) |-> texts[p[j]]], BlankLine)

\* length of the first j texts joined by blank lines
RECURSIVE JoinedLen(_, _)
JoinedLen(texts, j) ==
    IF j = 0 THEN 0
    ELSE IF j = 1 THEN Len(texts[1])
    ELSE JoinedLen(texts, j - 1) + 2 + Len(texts[j])

\* C14: normalize loses and duplicates no record: the input cuts into runs of
\* consecutive records, one run per output record in order, and every output
\* text is made of exactly the texts of its run; the run of the last output
\* record ends with the last input record, so a pending carry is emitted.
C14_NoRecordLost ==
    call = "normalize" =>
        \E e \in Segmentations(Len(input_list), Len(output_list)) :
            \A k \in 1..Len(output_list) :
                JoinedInSomeOrder(RunTexts(e, k), output_list[k].text)

\* C14 witness: a single trailing small record with no prior carry is emitted
\* as the last output record, after a merged record
C14_Witness ==
    /\ call = "normalize"
    /\ Len(input_list) = 3
    /\ Len(output_list) = 2
    /\ Len(input_list[3].text) < chunk_len
    /\ output_list[2] = input_list[3]
    /\ Len(output_list[1].text) > Len(input_list[1].text)

\* C15 as stated: every output record is an input record of length >=
\* chunk_len passed through untouched, or the merge of consecutive records
\* that are each shorter than chunk_len.
C15_Claim ==
    call = "normalize" =>
        \E e \in Segmentations(Len(input_list), Len(output_list)) :
            \A k \in 1..Len(output_list) :
                \/ /\ RunLen(e, k) = 1
                   /\ output_list[k] = input_list[e[k]]
                   /\ Len(input_list[e[k]].text) >= chunk_len
                \/ /\ \A j \in RunStart(e, k)..e[k] : Len(input_list[j].text) < chunk_len
                   /\ JoinedInSomeOrder(RunTexts(e, k), output_list[k].text)

\* C15 amended: every output record is an input record passed through
\* untouched (of length >= chunk_len, or the last input record), or the merge
\* of two or more consecutive records of which the first is shorter than
\* chunk_len and which stays below chunk_len until its last record is merged
\* in; the records after the first are merged in whatever their length.
C15_MergedRunsStartSmall ==
    call = "normalize" =>
        \E e \in Segmentations(Len(input_list), Len(output_list)) :
            \A k \in 1..Len(output_list) :
                \/ /\ RunLen(e, k) = 1
                   /\ output_list[k] = input_list[e[k]]
                   /\ Len(input_list[e[k]].text) >= chunk_len \/ e[k] = Len(input_list)
                \/ /\ RunLen(e, k) >= 2
                   /\ \A j \in 1..(RunLen(e, k) - 1) : JoinedLen(RunTexts(e, k), j) < chunk_len
                   /\ JoinedLen(RunTexts(e, k), RunLen(e, k)) >= chunk_len
                      \/ e[k] = Len(input_list)
                   /\ JoinedInSomeOrder(RunTexts(e, k), output_list[k].text)

\* C15 witness: a record of length >= chunk_len that follows a small record
\* is merged with it
C15_Witness ==
    /\ call = "normalize"
    /\ Len(input_list) = 2
    /\ Len(input_list[1].text) < chunk_len
    /\ Len(input_list[2].text) >= chunk_len
    /\ Len(output_list) = 1
    /\ Len(output_list[1].text) = Len(input_list[1].text) + 2 + Len(input_list[2].text)

\* the page of a run merged record by record: the pairwise floor average of
\* the page so far and the next record's page
RECURSIVE IteratedAverage(_, _)
IteratedAverage(pages, j) ==
    IF j = 1 THEN pages[1]
    ELSE (pages[j] + IteratedAverage(pages, j - 1)) \div 2

RECURSIVE SumSeq(_, _)
SumSeq(s, j) == IF j = 0 THEN 0 ELSE SumSeq(s, j - 1) + s[j]

\* C16: a merged record's text is the merged texts joined by "\n\n" (its
\* length is the sum of their lengths plus 2 per merge) and its page_num is
\* the pairwise floor average (a + b) // 2, iterated over the records merged
\* in a row.
C16_MergedTextAndPage ==
    call = "normalize" =>
        \E e \in Segmentations(Len(input_list), Len(output_list)) :
            \A k \in 1..Len(output_list) :
                /\ JoinedInSomeOrder(RunTexts(e, k), output_list[k].text)
                /\ Len(output_list[k].text) = JoinedLen(RunTexts(e, k), RunLen(e, k))
                /\ output_list[k].page_num = IteratedAverage(RunPages(e, k), RunLen(e, k))

\* C16 witness: three records merged in a row whose iterated average differs
\* from the floor of the average of the three pages
C16_Witness ==
    /\ call = "normalize"
    /\ Len(input_list) = 3
    /\ Len(output_list) = 1
    /\ Len(output_list[1].text) = JoinedLen(RunTexts(<<3>>, 1), 3)
    /\ output_list[1].page_num # SumSeq(RunPages(<<3>>, 1), 3) \div 3

\* C20: the texts inside every output record of normalize appear in input
\* order: the carry's text first, the current record's text after the
\* blank-line separator.
C20_Claim ==
    call = "normalize" =>
        \E e \in Segmentations(Len(input_list), Len(output_list)) :
            \A k \in 1..Len(output_list) :
                output_list[k].text = Join(RunTexts(e, k), BlankLine)

\* ------------------------------------------------ more claims on split_text
Contents(docs) == [k \in 1..Len(docs) |-> docs[k].content]

\* C12: split_text is idempotent on its own output: a second call, on the
\* chunks the first call returned and with the same chunk_size, chunk_overlap
\* and separator, returns chunks with the same contents in the same order.
C12_Idempotent ==
    (calls = 2 /\ pc = "returned") => Contents(core_docs) = Contents(prev_docs)

\* C12 witness: the second call returned, on several chunks that the first
\* call had cut out of one document with an overlap
C12_Witness ==
    /\ calls = 2
    /\ pc = "returned"
    /\ 0 < chunk_overlap
    /\ chunk_overlap < chunk_size
    /\ Len(prev_docs) >= 3
    /\ \A k \in 1..Len(prev_docs) : Len(prev_docs[k].content) <= chunk_size
    /\ \E k \in 1..(Len(prev_docs) - 1) :
          /\ prev_docs[k].metadata = [prev_docs[k + 1].metadata EXCEPT !["chunk_num"] = k]
          /\ Len(prev_docs[k + 1].content) >= 2
          /\ prev_docs[k].content[Len(prev_docs[k].content)] = prev_docs[k + 1].content[1]

Running == pc \in {"preprocessed", "split", "numbered", "returned"}
Split == pc \in {"split", "numbered", "returned"}

\* the chunk texts the splitter makes of normalized record k
ChunksOfRecord(k) ==
    SplitterSplitText(preprocessed_docs[k].page_content, separator, chunk_size, chunk_overlap)

\* the lengths an overlap prefix of chunk k may have: at most chunk_overlap
\* characters that begin chunk k and end chunk k-1
OverlapPrefixes(chunks, k) ==
    IF k = 1 THEN {0}
    ELSE {o \in 0..Min(chunk_overlap, Min(Len(chunks[k]), Len(chunks[k - 1]))) :
            SubSeq(chunks[k], 1, o)
                = SubSeq(chunks[k - 1], Len(chunks[k - 1]) - o + 1, Len(chunks[k - 1]))}

\* s without the characters of gaps
Without(s, gaps) == SelectSeq(s, LAMBDA c : c \notin gaps)

\* text from position pos on (0-based) is chunk k, chunk k+1, ... in order,
\* each without an overlap prefix and without the characters of gaps
RECURSIVE Rebuilds(_, _, _, _, _)
Rebuilds(text, pos, chunks, k, gaps) ==
    IF k > Len(chunks) THEN pos = Len(text)
    ELSE \E o \in OverlapPrefixes(chunks, k) :
            LET rest == Without(SubSeq(chunks[k], o + 1, Len(chunks[k])), gaps)
            IN  /\ MatchAt(text, pos, rest)
                /\ Rebuilds(text, pos + Len(rest), chunks, k + 1, gaps)

\* the chunks, each but the first without an overlap prefix, concatenated in
\* order, are text up to the characters of gaps
RoundTrip(text, chunks, gaps) == Rebuilds(Without(text, gaps), 0, chunks, 1, gaps)

SeparatorChars == {separator[j] : j \in 1..Len(separator)}

\* the chunks of split_docs are the chunks of the normalized records, record
\* by record
ChunksByRecord ==
    [j \in 1..Len(split_docs) |-> split_docs[j].page_content]
        = Flatten([k \in 1..Len(preprocessed_docs) |-> ChunksOfRecord(k)])

\* C11 as stated: the chunks of a normalized record, each but the first without
\* its overlap prefix, concatenated in order, are the record's text up to
\* separator characters: no other character is lost, added or reordered.
C11_Claim ==
    Split =>
        /\ ChunksByRecord
        /\ \A k \in 1..Len(preprocessed_docs) :
              RoundTrip(preprocessed_docs[k].page_content, ChunksOfRecord(k), SeparatorChars)

\* C11 amended: the same, up to separator characters and whitespace (the
\* splitter strips the whitespace at the two ends of every chunk, and emits no
\* chunk that the stripping leaves empty).
C11_RoundTripUpToStripping ==
    Split =>
        /\ ChunksByRecord
        /\ \A k \in 1..Len(preprocessed_docs) :
              RoundTrip(preprocessed_docs[k].page_content, ChunksOfRecord(k),
                        SeparatorChars \cup Whitespace)

\* C11 witness: a record cut into overlapping chunks, one of which lost a
\* blank to the stripping
C11_Witness ==
    /\ pc = "returned"
    /\ calls = 1
    /\ 0 < chunk_overlap
    /\ chunk_overlap < chunk_size
    /\ Len(preprocessed_docs) = 1
    /\ Len(core_docs) >= 2
    /\ \E j \in 1..Len(preprocessed_docs[1].page_content) :
          preprocessed_docs[1].page_content[j] = SP
    /\ \A j \in 1..Len(core_docs) : \A i \in 1..Len(core_docs[j].content) :
          core_docs[j].content[i] # SP
    /\ core_docs[1].content[Len(core_docs[1].content)] = core_docs[2].content[1]
    /\ Len(core_docs[2].content) >= 2

\* C13 as stated: split_text raises on a batch with a record whose source is
\* missing, instead of treating the record as non-tabular: it returns no
\* chunk list.
C13_Claim ==
    (\E i \in 1..Len(documents) : "source" \notin DOMAIN documents[i].metadata) =>
        core_docs = <<>>

EmptyRecords(docs) == {k \in 1..Len(docs) : docs[k].page_content = <<>>}

\* C18 as stated: every input record with empty text, of a tabular source or
\* not, yields a zero-length normalized record, for which the splitter makes
\* at most one (empty) chunk.
C18_Claim ==
    Running =>
        /\ Cardinality(EmptyRecords(preprocessed_docs)) = Cardinality(EmptyRecords(documents))
        /\ Split => Cardinality(EmptyRecords(split_docs))
                        <= Cardinality(EmptyRecords(preprocessed_docs))

\* C18 amended: every input record with empty text and a non-tabular source
\* yields a zero-length normalized record, for which the splitter makes at most
\* one (empty) chunk; a tabular record with empty text yields no record.
C18_EmptyNonTabularKept ==
    Running =>
        /\ Cardinality(EmptyRecords(preprocessed_docs))
              = Cardinality({i \in EmptyRecords(documents) : ~HasExcelSource(documents[i])})
        /\ Split => Cardinality(EmptyRecords(split_docs))
                        <= Cardinality(EmptyRecords(preprocessed_docs))

\* C18 witness: an empty non-tabular record went through the normalization and
\* the splitter, next to a record that has chunks
C18_Witness ==
    /\ pc = "returned"
    /\ \E i \in EmptyRecords(documents) : ~HasExcelSource(documents[i])
    /\ EmptyRecords(preprocessed_docs) # {}
    /\ core_docs # <<>>

\* C19: a call of split_text leaves its input documents (content and
\* metadata: no page, no chunk_num is added) and the TextSplitter's
\* chunk_size, chunk_overlap and separator as they were, whether it returns or
\* raises, and a raising call leaves no chunk list behind.
C19_Frame ==
    [][/\ (pc # "idle" /\ pc' # "start") =>
             /\ documents' = documents
             /\ chunk_size' = chunk_size
             /\ chunk_overlap' = chunk_overlap
             /\ separator' = separator
       /\ pc' = "raised" => core_docs' = <<>>]_vars

\* C19 witness: a call returned chunks carrying page and chunk_num for an input
\* document whose metadata has neither
C19_Witness ==
    /\ pc = "returned"
    /\ calls = 1
    /\ Len(documents) = 1
    /\ DOMAIN documents[1].metadata = {"source"}
    /\ core_docs # <<>>
    /\ \A k \in 1..Len(core_docs) :
          {"page", "chunk_num"} \subseteq DOMAIN core_docs[k].metadata

\* ---------------------------------------------- more claims on process_files
\* what the load of file i returned
LoadedDocs(i) ==
    IF tasks[i].load_failed THEN <<>> ELSE LoadFile(file_paths[i], Disk(file_paths[i])).docs

\* content and metadata of the chunks split_text makes of the documents of
\* file i alone, before the numbering
FileChunks(i) ==
    LET chunks == split_documents(PreprocessAll(LcDocuments(LoadedDocs(i)), chunk_size),
                                  separator, chunk_size, chunk_overlap)
    IN  [k \in 1..Len(chunks) |-> <<chunks[k].page_content, chunks[k].metadata>>]

\* C17: whatever the order in which the workers finished, split_text is called
\* on the documents of the loaded files in the order of file_paths, and the
\* returned chunks are the chunks of the first file, then those of the second,
\* and so on, numbered in that order.
C17_FileOrder ==
    /\ fpc \in {"splitting", "returned"} =>
          documents = Flatten([i \in TaskIds |-> LoadedDocs(i)])
    /\ fpc = "returned" =>
          LET expected == Flatten([i \in TaskIds |-> FileChunks(i)])
          IN  /\ Len(core_docs) = Len(expected)
              /\ \A k \in 1..Len(core_docs) :
                    /\ core_docs[k].content = expected[k][1]
                    /\ core_docs[k].metadata = With(expected[k][2], "chunk_num", k)

\* C17 witness: the workers finished in the reverse of the file order, and the
\* returned list begins with a chunk of the first file and ends with a chunk
\* of the last file
C17_Witness ==
    /\ fpc = "returned"
    /\ Len(file_paths) >= 2
    /\ \A k \in 1..(Len(completed) - 1) : completed[k] > completed[k + 1]
    /\ file_paths[1] # file_paths[Len(file_paths)]
    /\ Len(core_docs) >= 2
    /\ core_docs[1].metadata["source"] = file_paths[1]
    /\ core_docs[Len(core_docs)].metadata["source"] = file_paths[Len(file_paths)]

\* ------------------------------------------------- more claims on normalize
\* C21: every record normalize returns, except possibly the last, has a text
\* of length >= chunk_len, and normalize returns no more records than it was
\* given.
C21_OnlyLastShort ==
    call = "normalize" =>
        /\ \A k \in 1..(Len(output_list) - 1) : Len(output_list[k].text) >= chunk_len
        /\ Len(output_list) <= Len(input_list)

\* C21 witness: two small records merged into a record that reached
\* chunk_len, followed by a carry left at the end of the scan
C21_Witness ==
    /\ call = "normalize"
    /\ Len(input_list) = 3
    /\ Len(output_list) = 2
    /\ Len(input_list[1].text) < chunk_len
    /\ Len(output_list[1].text) >= chunk_len
    /\ Len(output_list[2].text) < chunk_len

\* ----------------------------------------- claims on loader and split_text
\* the loader's classification of the file a document was loaded from
LoadedAsSpreadsheet(doc) == Lower(Suffix(doc.metadata["source"])) \in {DotXlsx, DotXls}

\* C22 as stated: split_text routes every document the loader made of a
\* spreadsheet file (.xlsx or .xls in any letter case) through the blank-line
\* resplitter, one normalized record per block, and every other document
\* through normalize, one normalized record with the document's text.
C22_Claim ==
    (fpc = "splitting" /\ Running) =>
        [k \in 1..Len(preprocessed_docs) |-> preprocessed_docs[k].page_content]
            = Flatten([i \in 1..Len(documents) |->
                          IF LoadedAsSpreadsheet(documents[i])
                          THEN blankline_tokenize(documents[i].page_content)
                          ELSE <<documents[i].page_content>>])

\* process_files finished: it returned or raised
Finished == fpc \in {"returned", "raised"}

\* C23: process_files eventually finishes, and when it has finished every
\* worker has been through the semaphore and has released it, after a load
\* that raised as well as after one that returned.
C23_Terminates ==
    /\ <>Finished
    /\ [](Finished => /\ \A i \in TaskIds : tasks[i].pc = "done"
                      /\ semaphore = concurrency)

\* C23 witness: process_files finished although a worker that held the only
\* slot of the semaphore raised while other workers were still waiting
C23_Witness ==
    /\ Finished
    /\ concurrency = 1
    /\ Len(file_paths) >= 3
    /\ tasks[completed[1]].load_failed
    /\ \E i \in TaskIds : ~tasks[i].load_failed

\* C24: process_uploaded_file leaves no temporary file behind when it returns
\* and when it propagates an error of the load or of split_text, the file
\* having been there while process_files ran; a file name the validation
\* rejects never gets a temporary file.
C24_NoTempFileLeft ==
    /\ upc = "processing" => tmp_dir = {tmp_file_path}
    /\ upc = "returned" => tmp_dir = {}
    /\ (upc = "raised" /\ upload_error \in {"loading", "chunking"}) => tmp_dir = {}
    /\ (upc # "idle" /\ ~validate_file_type(filename)) =>
           tmp_dir = {} /\ tmp_file_path = NoPath

\* C24 witness: a temporary file was created, its load raised, and the file
\* is gone when the error has propagated
C24_Witness ==
    /\ upc = "raised"
    /\ upload_error = "loading"
    /\ tmp_file_path # NoPath
    /\ tmp_dir = {}

====
